---------------------------- MODULE Spec2Model ----------------------------
(***************************************************************************)
(* Fixed-point quantisation and hex/COE serialisation of the shape         *)
(* detector's Python tool chain:                                           *)
(*   convert_weights_to_coe.py  float_to_fixed_point, generate_coe_file    *)
(*   train_network.py           save_weights_for_fpga                      *)
(*   generate_test_images.py    save_as_hex                                *)
(*   convert_images_to_hex.py   convert_image_to_hex                       *)
(*                                                                         *)
(* Floating-point values are modelled exactly on a dyadic grid: a finite   *)
(* value is an integer count n of grid steps of 2^-(FRAC_BITS+SubBits),    *)
(* so that scaling by 2^15 and the comparisons of the code are exact.      *)
(* With SubBits = 9 the grid is the float32 grid on [0.5, 1), the type of  *)
(* the Keras weights.  NaN and the infinities are separate kinds.          *)
(***************************************************************************)
EXTENDS Integers, Sequences, FiniteSets, TLC

VARIABLES
    qval,      \* quantiser run: the scalar handed to both quantising sites
    qfp,       \* quantiser run: outcome of float_to_fixed_point + mask
    qnp,       \* quantiser run: outcome of the clip/round/astype path + mask
    fn,        \* serialiser run: the function that was called
    pc,        \* serialiser run: position in the running function
    weights,   \* the weight tensor argument (rows of float values)
    img,       \* the image argument (rows of uint8 pixels)
    flat,      \* weights_flat / w_int.flatten(): the sequence being written
    w_int,     \* save_weights_for_fpga: the int32 array after astype
    i,         \* loop index (number of elements already written)
    target_size, \* convert_image_to_hex: <<width, height>>
    y,         \* image loops: row index
    x,         \* image loops: column index
    files,     \* the destination files: name -> [exists, text]
    prev,      \* the destination files before the run started
    completed, \* the files whose with-block was left normally in this run
    err,       \* exception that ended the run, or "none"
    ret        \* return value of convert_image_to_hex ("none" while unset)

qvars == <<qval, qfp, qnp>>
svars == <<fn, pc, weights, img, flat, w_int, i, target_size, y, x,
           files, prev, completed, err, ret>>
vars == <<qval, qfp, qnp, fn, pc, weights, img, flat, w_int, i, target_size,
          y, x, files, prev, completed, err, ret>>

---------------------------------------------------------------------------
(* Bounds of the model *)

\* extra fractional bits of the value grid below one Q1.15 step
SubBits == 9
\* quantiser run: grid steps enumerated on each side of every centre
Spread == 600
\* serialiser run: largest number of elements of a weight tensor
MaxLen == 4
\* serialiser run: largest number of pixels of an image
MaxPixels == 6

(* Program constants *)

\* frac_bits=15, the default of float_to_fixed_point and generate_coe_file
FRAC_BITS == 15
\* int_bits=1
INT_BITS == 1

Unit == 2^SubBits
One == 2^(FRAC_BITS + SubBits)

---------------------------------------------------------------------------
(* Floating-point values *)

Fin(n) == [kind |-> "fin", n |-> n]
NaN == [kind |-> "nan", n |-> 0]
PosInf == [kind |-> "inf", n |-> 1]
NegInf == [kind |-> "inf", n |-> -1]

IsFinite(v) == v.kind = "fin"

\* IEEE comparison a < b: false whenever a NaN is involved
FloatLt(a, b) ==
    CASE a.kind = "nan" \/ b.kind = "nan" -> FALSE
      [] a.kind = "fin" /\ b.kind = "fin" -> a.n < b.n
      [] a.kind = "inf" /\ b.kind = "fin" -> a.n < 0
      [] a.kind = "fin" /\ b.kind = "inf" -> b.n > 0
      [] OTHER -> a.n < b.n

\* Python's builtin min(a, b): b if b < a else a
PyMin(a, b) == IF FloatLt(b, a) THEN b ELSE a
\* Python's builtin max(a, b): b if b > a else a
PyMax(a, b) == IF FloatLt(a, b) THEN b ELSE a

\* n / d truncated toward zero, d > 0 (Python's int() of a float)
TruncDiv(n, d) == IF n >= 0 THEN n \div d ELSE -((-n) \div d)

\* n / d rounded to nearest, ties to even, d > 0 (numpy.round)
RoundHalfEven(n, d) ==
    LET q == n \div d
        r == n % d
    IN  IF 2 * r < d THEN q
        ELSE IF 2 * r > d THEN q + 1
        ELSE IF q % 2 = 0 THEN q ELSE q + 1

\* x & 0xFFFF on a Python / numpy integer
Mask16(n) == n % 65536

---------------------------------------------------------------------------
(* convert_weights_to_coe.py: float_to_fixed_point *)

\* faulty variant: the upper clamp is missing
ClampNoUpper(val, frac_bits) == PyMax(val, Fin(-One))
\* val = max(min(val, 1.0 - 2**(-frac_bits)), -1.0)
Clamp(val, frac_bits) ==
    PyMax(PyMin(val, Fin(One - 2^(FRAC_BITS + SubBits - frac_bits))), Fin(-One))

\* faulty variant: the scale factor is 2^(frac_bits+1)
ScaleIntDouble(val, frac_bits) ==
    CASE val.kind = "nan" -> [raised |-> "ValueError", value |-> 0]
      [] val.kind = "inf" -> [raised |-> "OverflowError", value |-> 0]
      [] OTHER -> [raised |-> "none",
                   value |-> TruncDiv(2 * val.n, 2^(FRAC_BITS + SubBits - frac_bits))]
\* scaled_val = int(val * (2**frac_bits)): the product is exact, int()
\* truncates toward zero and raises for NaN (ValueError) and infinities
ScaleInt(val, frac_bits) ==
    CASE val.kind = "nan" -> [raised |-> "ValueError", value |-> 0]
      [] val.kind = "inf" -> [raised |-> "OverflowError", value |-> 0]
      [] OTHER -> [raised |-> "none",
                   value |-> TruncDiv(val.n, 2^(FRAC_BITS + SubBits - frac_bits))]

\* faulty variant: the modulus is 2^frac_bits
TwosComplementShort(s, int_bits, frac_bits) ==
    IF s < 0 THEN 2^frac_bits + s ELSE s
\* if scaled_val < 0: scaled_val = (1 << (int_bits + frac_bits)) + scaled_val
TwosComplement(s, int_bits, frac_bits) ==
    IF s < 0 THEN 2^(int_bits + frac_bits) + s ELSE s

float_to_fixed_point(val, int_bits, frac_bits) ==
    LET c == Clamp(val, frac_bits)
        s == ScaleInt(c, frac_bits)
    IN  IF s.raised # "none" THEN s
        ELSE [raised |-> "none",
              value |-> TwosComplement(s.value, int_bits, frac_bits)]

---------------------------------------------------------------------------
(* train_network.py: the quantisation of save_weights_for_fpga *)

\* faulty variant: the upper clip bound is 1.0
ClipHiOne == Fin(One)
\* the literal 0.99997, rounded to the value grid (1 - 3/100000)
ClipHi == Fin(One - RoundHalfEven(3 * One, 100000))

\* np.clip(w, lo, hi) on one element: NaN stays NaN
NpClip(v, lo, hi) ==
    IF v.kind = "nan" THEN v ELSE PyMin(PyMax(v, lo), hi)

\* outcomes of casting NaN to int32, which C leaves undefined:
\* INT_MIN (x86), 0 (AArch64), INT_MAX (RISC-V)
CastOfNaN == {-2147483647 - 1, 0, 2147483647}

\* faulty variant: the scale factor is 32767 (v * 32768 less v, to the grid)
NpRoundInt32Scale32767(v, nanCast) ==
    CASE v.kind = "nan" -> nanCast
      [] v.kind = "inf" -> nanCast
      [] OTHER -> RoundHalfEven(v.n - TruncDiv(v.n, 32768), Unit)
\* np.round(w_fixed * 32768).astype(np.int32) on one element
NpRoundInt32(v, nanCast) ==
    CASE v.kind = "nan" -> nanCast
      [] v.kind = "inf" -> nanCast
      [] OTHER -> RoundHalfEven(v.n, Unit)

\* w_int for one element of w
NpQuantize(v, nanCast) ==
    NpRoundInt32(NpClip(v, Fin(-One), ClipHi), nanCast)

\* the element as written: two's complement (weight + 65536), then & 0xFFFF
NpWordPre(w) == IF w < 0 THEN w + 65536 ELSE w

---------------------------------------------------------------------------
(* Quantiser run: one scalar through both quantising call sites *)

\* centres of the enumerated values, in Q1.15 steps
Centres == {-1000000, -40000, -32769, -32768, -32767, -16384, -1, 0, 1,
            16384, 32766, 32767, 32768, 40000, 1000000}

QValues == {Fin(c * Unit + d) : c \in Centres, d \in -Spread..Spread}
             \cup {NaN, PosInf, NegInf}

NotRun == [done |-> FALSE, raised |-> "none", pre |-> 0, word |-> 0]

SIdle ==
    /\ fn = "none"
    /\ pc = "idle"
    /\ target_size = <<0, 0>>
    /\ y = 0
    /\ x = 0
    /\ completed = {}
    /\ weights = <<>>
    /\ img = <<>>
    /\ flat = <<>>
    /\ w_int = <<>>
    /\ i = 0
    /\ files = <<>>
    /\ prev = <<>>
    /\ err = "none"
    /\ ret = "none"

QInit ==
    /\ qval \in QValues
    /\ qfp = NotRun
    /\ qnp = NotRun
    /\ SIdle

\* fixed_point = float_to_fixed_point(weight, int_bits, frac_bits)
\* hex_val = format(fixed_point & 0xFFFF, '04x')
QuantizeFP ==
    /\ ~qfp.done
    /\ LET r == float_to_fixed_point(qval, INT_BITS, FRAC_BITS)
       IN  qfp' = [done |-> TRUE, raised |-> r.raised, pre |-> r.value,
                   word |-> Mask16(r.value)]
    /\ UNCHANGED <<qval, qnp>>
    /\ UNCHANGED svars

\* w_int = np.round(np.clip(w, -1.0, 0.99997) * 32768).astype(np.int32)
\* if weight < 0: weight = weight + 65536;  weight & 0xFFFF
QuantizeNP ==
    /\ ~qnp.done
    /\ \E nanCast \in CastOfNaN :
          LET w == NpWordPre(NpQuantize(qval, nanCast))
          IN  qnp' = [done |-> TRUE, raised |-> "none", pre |-> w,
                      word |-> Mask16(w)]
    /\ UNCHANGED <<qval, qfp>>
    /\ UNCHANGED svars

QNext == QuantizeFP \/ QuantizeNP

SpecQ == QInit /\ [][QNext]_vars

---------------------------------------------------------------------------
(* Text: a file's content is the sequence of its characters *)

\* faulty variant: uppercase digits, as format(n, '04X') gives
HexDigitsUpper ==
    <<"0", "1", "2", "3", "4", "5", "6", "7", "8", "9",
      "A", "B", "C", "D", "E", "F">>
\* the digits of the 'x' presentation type
HexDigits ==
    <<"0", "1", "2", "3", "4", "5", "6", "7", "8", "9",
      "a", "b", "c", "d", "e", "f">>

RECURSIVE HexStr(_)
HexStr(n) ==
    IF n < 16 THEN <<HexDigits[n + 1]>>
    ELSE HexStr(n \div 16) \o <<HexDigits[(n % 16) + 1]>>

RECURSIVE ZeroPad(_, _)
ZeroPad(s, width) ==
    IF Len(s) >= width THEN s ELSE ZeroPad(<<"0">> \o s, width)

\* format(n, '04x') and f"{n:02x}" for n >= 0: at least width digits
Format(n, width) == ZeroPad(HexStr(n), width)

\* f.write("memory_initialization_radix=16;\n")
HeaderRadix ==
    <<"m", "e", "m", "o", "r", "y", "_", "i", "n", "i", "t", "i", "a",
      "l", "i", "z", "a", "t", "i", "o", "n", "_", "r", "a", "d", "i",
      "x", "=", "1", "6", ";", "\n">>
\* f.write("memory_initialization_vector=\n")
HeaderVector ==
    <<"m", "e", "m", "o", "r", "y", "_", "i", "n", "i", "t", "i", "a",
      "l", "i", "z", "a", "t", "i", "o", "n", "_", "v", "e", "c", "t",
      "o", "r", "=", "\n">>

\* faulty variant: the separator is a bare comma
JoinComma(sep, strs) ==
    LET F[k \in 0..Len(strs)] ==
            IF k = 0 THEN <<>>
            ELSE IF k = 1 THEN strs[1]
            ELSE F[k - 1] \o <<",">> \o strs[k]
    IN  F[Len(strs)]
\* sep.join(strs)
Join(sep, strs) ==
    LET F[k \in 0..Len(strs)] ==
            IF k = 0 THEN <<>>
            ELSE IF k = 1 THEN strs[1]
            ELSE F[k - 1] \o sep \o strs[k]
    IN  F[Len(strs)]

\* faulty variant: column-major order, as flatten(order='F') gives
FlattenColumnMajor(m) ==
    IF m = <<>> THEN <<>>
    ELSE LET rows == Len(m)
             cols == Len(m[1])
         IN  [k \in 1..(rows * cols) |->
                 m[((k - 1) % rows) + 1][((k - 1) \div rows) + 1]]
\* ndarray.flatten(): row-major order
Flatten(m) ==
    LET F[k \in 0..Len(m)] == IF k = 0 THEN <<>> ELSE F[k - 1] \o m[k]
    IN  F[Len(m)]

---------------------------------------------------------------------------
(* Serialiser run: inputs, files and the initial state *)

FileNames == {"hex", "coe"}

Absent == [exists |-> FALSE, text |-> <<>>]
File(text) == [exists |-> TRUE, text |-> text]

\* what is at the destinations before the run: nothing, or the artifacts an
\* earlier run wrote for a one-element tensor
NoFiles == [f \in FileNames |-> Absent]
OldFiles ==
    [f \in FileNames |->
        IF f = "hex" THEN File(<<"4", "0", "0", "0", "\n">>)
        ELSE File(HeaderRadix \o HeaderVector \o <<"4", "0", "0", "0", ";">>)]

\* shapes of the arguments: a vector is one row; at most n elements
Shapes(n) ==
    {sh \in (1..n) \X (1..n) : sh[1] * sh[2] <= n}
Matrices(V, n) ==
    UNION {[1..sh[1] -> [1..sh[2] -> V]] : sh \in Shapes(n)}

\* weight values of the serialiser run: 0.0, -0.5, 2.0, NaN, +Infinity
SValues == {Fin(0), Fin(-(One \div 2)), Fin(2 * One), NaN, PosInf}
\* pixel values of the serialiser run
Pixels == {0, 16, 255}

Tensors == Matrices(SValues, MaxLen) \cup {<<>>}
Images == Matrices(Pixels, MaxPixels) \cup {<<>>}

HasNonFinite(m) ==
    \E r \in 1..Len(m) : \E c \in 1..Len(m[r]) : ~IsFinite(m[r][c])

QIdle ==
    /\ qval = Fin(0)
    /\ qfp = NotRun
    /\ qnp = NotRun

Init ==
    /\ QIdle
    /\ fn = "none"
    /\ pc = "idle"
    /\ weights = <<>>
    /\ img = <<>>
    /\ flat = <<>>
    /\ w_int = <<>>
    /\ i = 0
    /\ target_size = <<0, 0>>
    /\ y = 0
    /\ x = 0
    /\ prev \in {NoFiles, OldFiles}
    /\ files = prev
    /\ completed = {}
    /\ err = "none"
    /\ ret = "none"

\* open(name, 'w'): the file exists and is empty
Open(name) == files' = [files EXCEPT ![name] = File(<<>>)]
\* f.write(s)
Write(name, s) == files' = [files EXCEPT ![name].text = @ \o s]

---------------------------------------------------------------------------
(* convert_weights_to_coe.py: generate_coe_file(weights, filename) *)

CallGenerateCoeFile ==
    /\ pc = "idle"
    /\ \E w \in Tensors : weights' = w
    /\ fn' = "generate_coe_file"
    /\ pc' = "gen_open"
    /\ UNCHANGED <<img, flat, w_int, i, target_size, y, x, files, prev,
                   completed, err, ret>>
    /\ UNCHANGED qvars

\* with open(filename, 'w') as f:
GenOpen ==
    /\ pc = "gen_open"
    /\ Open("coe")
    /\ pc' = "gen_header1"
    /\ UNCHANGED <<fn, weights, img, flat, w_int, i, target_size, y, x, prev,
                   completed, err, ret>>
    /\ UNCHANGED qvars

GenHeader1 ==
    /\ pc = "gen_header1"
    /\ Write("coe", HeaderRadix)
    /\ pc' = "gen_header2"
    /\ UNCHANGED <<fn, weights, img, flat, w_int, i, target_size, y, x, prev,
                   completed, err, ret>>
    /\ UNCHANGED qvars

GenHeader2 ==
    /\ pc = "gen_header2"
    /\ Write("coe", HeaderVector)
    /\ pc' = "gen_flatten"
    /\ UNCHANGED <<fn, weights, img, flat, w_int, i, target_size, y, x, prev,
                   completed, err, ret>>
    /\ UNCHANGED qvars

\* weights_flat = weights.flatten()
GenFlatten ==
    /\ pc = "gen_flatten"
    /\ flat' = Flatten(weights)
    /\ i' = 0
    /\ pc' = "gen_loop"
    /\ UNCHANGED <<fn, weights, img, w_int, target_size, y, x, files, prev,
                   completed, err, ret>>
    /\ UNCHANGED qvars

\* faulty variant: every token is followed by a comma
GenSuffixComma(k, n) == <<",", "\n">>
\* if i < len(weights_flat) - 1: "{hex_val},\n" else: "{hex_val};\n"
GenSuffix(k, n) == IF k < n - 1 THEN <<",", "\n">> ELSE <<";", "\n">>

\* one iteration of: for i, weight in enumerate(weights_flat)
\* an exception of float_to_fixed_point leaves the with-block, which closes
\* the file with what was written so far
GenLoop ==
    /\ pc = "gen_loop"
    /\ i < Len(flat)
    /\ LET fixed_point == float_to_fixed_point(flat[i + 1], INT_BITS, FRAC_BITS)
       IN  \/ /\ fixed_point.raised # "none"
              /\ err' = fixed_point.raised
              /\ pc' = "failed"
              /\ UNCHANGED <<i, files>>
           \/ /\ fixed_point.raised = "none"
              /\ Write("coe", Format(Mask16(fixed_point.value), 4)
                                \o GenSuffix(i, Len(flat)))
              /\ i' = i + 1
              /\ UNCHANGED <<pc, err>>
    /\ UNCHANGED <<fn, weights, img, flat, w_int, target_size, y, x, prev,
                   completed, ret>>
    /\ UNCHANGED qvars

\* the loop is exhausted: the with-block closes the file
GenClose ==
    /\ pc = "gen_loop"
    /\ i = Len(flat)
    /\ completed' = completed \cup {"coe"}
    /\ pc' = "done"
    /\ UNCHANGED <<fn, weights, img, flat, w_int, i, target_size, y, x, files,
                   prev, err, ret>>
    /\ UNCHANGED qvars

---------------------------------------------------------------------------
(* train_network.py: save_weights_for_fpga, for one array w of the model    *)
(* (the code for the biases, lines 68-90, repeats that for the weights)     *)

CallSaveWeights ==
    /\ pc = "idle"
    /\ \E w \in Tensors : weights' = w
    /\ fn' = "save_weights_for_fpga"
    /\ pc' = "sw_quantize"
    /\ UNCHANGED <<img, flat, w_int, i, target_size, y, x, files, prev,
                   completed, err, ret>>
    /\ UNCHANGED qvars

\* w_fixed = np.clip(w, -1.0, 0.99997)
\* w_int = np.round(w_fixed * 32768).astype(np.int32)
\* the cast of a NaN is whatever the platform gives, the same for the run
SwQuantize ==
    /\ pc = "sw_quantize"
    /\ \E nanCast \in CastOfNaN :
          w_int' = [r \in 1..Len(weights) |->
                      [c \in 1..Len(weights[r]) |->
                          NpQuantize(weights[r][c], nanCast)]]
    /\ pc' = "sw_hex_open"
    /\ UNCHANGED <<fn, weights, img, flat, i, target_size, y, x, files, prev,
                   completed, err, ret>>
    /\ UNCHANGED qvars

\* with open(f"{output_dir}/{layer_name}_weights.hex", 'w') as f:
\*     for weight in w_int.flatten():
SwHexOpen ==
    /\ pc = "sw_hex_open"
    /\ Open("hex")
    /\ flat' = Flatten(w_int)
    /\ i' = 0
    /\ pc' = "sw_hex_loop"
    /\ UNCHANGED <<fn, weights, img, w_int, target_size, y, x, prev,
                   completed, err, ret>>
    /\ UNCHANGED qvars

\* if weight < 0: weight = weight + 65536
\* hex_val = format(weight & 0xFFFF, '04x')
SwHexVal(weight) == Format(Mask16(NpWordPre(weight)), 4)

\* f.write(f"{hex_val}\n")
SwHexLoop ==
    /\ pc = "sw_hex_loop"
    /\ i < Len(flat)
    /\ Write("hex", SwHexVal(flat[i + 1]) \o <<"\n">>)
    /\ i' = i + 1
    /\ UNCHANGED <<fn, pc, weights, img, flat, w_int, target_size, y, x, prev,
                   completed, err, ret>>
    /\ UNCHANGED qvars

SwHexClose ==
    /\ pc = "sw_hex_loop"
    /\ i = Len(flat)
    /\ completed' = completed \cup {"hex"}
    /\ pc' = "sw_coe_open"
    /\ UNCHANGED <<fn, weights, img, flat, w_int, i, target_size, y, x, files,
                   prev, err, ret>>
    /\ UNCHANGED qvars

\* with open(f"{output_dir}/{layer_name}_weights.coe", 'w') as f:
SwCoeOpen ==
    /\ pc = "sw_coe_open"
    /\ Open("coe")
    /\ pc' = "sw_coe_header1"
    /\ UNCHANGED <<fn, weights, img, flat, w_int, i, target_size, y, x, prev,
                   completed, err, ret>>
    /\ UNCHANGED qvars

SwCoeHeader1 ==
    /\ pc = "sw_coe_header1"
    /\ Write("coe", HeaderRadix)
    /\ pc' = "sw_coe_header2"
    /\ UNCHANGED <<fn, weights, img, flat, w_int, i, target_size, y, x, prev,
                   completed, err, ret>>
    /\ UNCHANGED qvars

SwCoeHeader2 ==
    /\ pc = "sw_coe_header2"
    /\ Write("coe", HeaderVector)
    /\ pc' = "sw_coe_vector"
    /\ UNCHANGED <<fn, weights, img, flat, w_int, i, target_size, y, x, prev,
                   completed, err, ret>>
    /\ UNCHANGED qvars

\* weights_hex = [hex_val of every weight in w_int.flatten()]
\* f.write(',\n'.join(weights_hex) + ';')
SwCoeVector ==
    /\ pc = "sw_coe_vector"
    /\ LET elems == Flatten(w_int)
           weights_hex == [k \in 1..Len(elems) |-> SwHexVal(elems[k])]
       IN  Write("coe", Join(<<",", "\n">>, weights_hex) \o <<";">>)
    /\ completed' = completed \cup {"coe"}
    /\ pc' = "done"
    /\ UNCHANGED <<fn, weights, img, flat, w_int, i, target_size, y, x, prev,
                   err, ret>>
    /\ UNCHANGED qvars

---------------------------------------------------------------------------
(* generate_test_images.py: save_as_hex(img, filename) *)

CallSaveAsHex ==
    /\ pc = "idle"
    /\ \E m \in Images : img' = m
    /\ fn' = "save_as_hex"
    /\ pc' = "sah_open"
    /\ UNCHANGED <<weights, flat, w_int, i, target_size, y, x, files, prev,
                   completed, err, ret>>
    /\ UNCHANGED qvars

SahOpen ==
    /\ pc = "sah_open"
    /\ Open("hex")
    /\ y' = 0
    /\ x' = 0
    /\ pc' = "sah_loop"
    /\ UNCHANGED <<fn, weights, img, flat, w_int, i, target_size, prev,
                   completed, err, ret>>
    /\ UNCHANGED qvars

\* for row in img: for pixel in row: f.write(f"{pixel:02x}\n")
SahLoop ==
    /\ pc = "sah_loop"
    /\ y < Len(img)
    /\ LET row == img[y + 1]
           pixel == row[x + 1]
       IN  /\ Write("hex", Format(pixel, 2) \o <<"\n">>)
           /\ IF x + 1 < Len(row)
              THEN x' = x + 1 /\ y' = y
              ELSE x' = 0 /\ y' = y + 1
    /\ UNCHANGED <<fn, pc, weights, img, flat, w_int, i, target_size, prev,
                   completed, err, ret>>
    /\ UNCHANGED qvars

SahClose ==
    /\ pc = "sah_loop"
    /\ y = Len(img)
    /\ completed' = completed \cup {"hex"}
    /\ pc' = "done"
    /\ UNCHANGED <<fn, weights, img, flat, w_int, i, target_size, y, x, files,
                   prev, err, ret>>
    /\ UNCHANGED qvars

---------------------------------------------------------------------------
(* convert_images_to_hex.py: convert_image_to_hex(image_path, output_path,  *)
(* target_size)                                                             *)

\* img = cv2.imread(...): None makes the function return False at once;
\* img = cv2.resize(img, target_size) has target_size[1] rows of
\* target_size[0] pixels
CallConvertImage ==
    /\ pc = "idle"
    /\ fn' = "convert_image_to_hex"
    /\ \/ /\ ret' = "False"
          /\ pc' = "done"
          /\ UNCHANGED <<img, target_size>>
       \/ /\ \E m \in Matrices(Pixels, MaxPixels) :
                /\ img' = m
                /\ target_size' = <<Len(m[1]), Len(m)>>
          /\ pc' = "ci_open"
          /\ UNCHANGED ret
    /\ UNCHANGED <<weights, flat, w_int, i, y, x, files, prev, completed, err>>
    /\ UNCHANGED qvars

CiOpen ==
    /\ pc = "ci_open"
    /\ Open("hex")
    /\ y' = 0
    /\ x' = 0
    /\ pc' = "ci_loop"
    /\ UNCHANGED <<fn, weights, img, flat, w_int, i, target_size, prev,
                   completed, err, ret>>
    /\ UNCHANGED qvars

\* for y in range(target_size[1]): for x in range(target_size[0]):
\*     f.write(f"{img[y, x]:02x}\n")
CiLoop ==
    /\ pc = "ci_loop"
    /\ y < target_size[2]
    /\ Write("hex", Format(img[y + 1][x + 1], 2) \o <<"\n">>)
    /\ IF x + 1 < target_size[1]
       THEN x' = x + 1 /\ y' = y
       ELSE x' = 0 /\ y' = y + 1
    /\ UNCHANGED <<fn, pc, weights, img, flat, w_int, i, target_size, prev,
                   completed, err, ret>>
    /\ UNCHANGED qvars

\* return True
CiClose ==
    /\ pc = "ci_loop"
    /\ y = target_size[2]
    /\ completed' = completed \cup {"hex"}
    /\ ret' = "True"
    /\ pc' = "done"
    /\ UNCHANGED <<fn, weights, img, flat, w_int, i, target_size, y, x, files,
                   prev, err>>
    /\ UNCHANGED qvars

---------------------------------------------------------------------------
(* The file system: open() and write() may raise OSError *)

\* the next statement of the run is an open() or a write()
IoPending ==
    \/ pc \in {"gen_open", "gen_header1", "gen_header2", "sw_hex_open",
               "sw_coe_open", "sw_coe_header1", "sw_coe_header2",
               "sw_coe_vector", "sah_open", "ci_open"}
    \/ /\ pc = "gen_loop"
       /\ i < Len(flat)
       /\ float_to_fixed_point(flat[i + 1], INT_BITS, FRAC_BITS).raised = "none"
    \/ pc = "sw_hex_loop" /\ i < Len(flat)
    \/ pc = "sah_loop" /\ y < Len(img)
    \/ pc = "ci_loop" /\ y < target_size[2]

\* the statement raises: nothing of it reaches the file, the exception
\* leaves the function (no handler), the with-block closes the file
IoFailure ==
    /\ IoPending
    /\ err' = "IoError"
    /\ pc' = "failed"
    /\ UNCHANGED <<fn, weights, img, flat, w_int, i, target_size, y, x, files,
                   prev, completed, ret>>
    /\ UNCHANGED qvars

Next ==
    \/ CallGenerateCoeFile \/ GenOpen \/ GenHeader1 \/ GenHeader2
    \/ GenFlatten \/ GenLoop \/ GenClose
    \/ CallSaveWeights \/ SwQuantize \/ SwHexOpen \/ SwHexLoop \/ SwHexClose
    \/ SwCoeOpen \/ SwCoeHeader1 \/ SwCoeHeader2 \/ SwCoeVector
    \/ CallSaveAsHex \/ SahOpen \/ SahLoop \/ SahClose
    \/ CallConvertImage \/ CiOpen \/ CiLoop \/ CiClose
    \/ IoFailure

Spec == Init /\ [][Next]_vars

---------------------------------------------------------------------------
(* Properties of the quantiser (checked under SpecQ) *)

InRange(v) == IsFinite(v) /\ -One <= v.n /\ v.n <= One - Unit

\* the value a word stands for, in Q1.15 steps:
\* (word >= 2^15) ? word - 2^16 : word
Decode(word) == IF word >= 32768 THEN word - 65536 ELSE word

Abs(n) == IF n < 0 THEN -n ELSE n

\* C1: for every finite input both quantising sites return without raising
\* an integer in [0, 65535], so the following & 0xFFFF leaves it unchanged.
C1_WordInRange ==
    IsFinite(qval) =>
        /\ qfp.done => /\ qfp.raised = "none"
                       /\ qfp.pre \in 0..65535
                       /\ qfp.word = qfp.pre
        /\ qnp.done => /\ qnp.pre \in 0..65535
                       /\ qnp.word = qnp.pre

\* an out-of-range finite input has gone through both sites
C1_Witness ==
    /\ IsFinite(qval) /\ qval.n > 2 * One
    /\ qfp.done /\ qnp.done
    /\ qfp.word = 32767 /\ qnp.word = 32767

\* C2: quantisation saturates at both sites: every finite v > 1-2^-15 gets
\* the word of 1-2^-15 and every finite v < -1.0 gets the word of -1.0.
C2_Saturates ==
    LET hiFP == float_to_fixed_point(Fin(One - Unit), INT_BITS, FRAC_BITS).value
        loFP == float_to_fixed_point(Fin(-One), INT_BITS, FRAC_BITS).value
        hiNP == NpWordPre(NpQuantize(Fin(One - Unit), 0))
        loNP == NpWordPre(NpQuantize(Fin(-One), 0))
    IN  /\ (IsFinite(qval) /\ qval.n > One - Unit) =>
              /\ qfp.done => qfp.raised = "none" /\ qfp.word = Mask16(hiFP)
              /\ qnp.done => qnp.word = Mask16(hiNP)
        /\ (IsFinite(qval) /\ qval.n < -One) =>
              /\ qfp.done => qfp.raised = "none" /\ qfp.word = Mask16(loFP)
              /\ qnp.done => qnp.word = Mask16(loNP)

\* a value between 1-2^-15 and the literal 0.99997 has been quantised to
\* 0x7FFF by both sites
C2_Witness ==
    /\ IsFinite(qval) /\ qval.n > One - Unit /\ qval.n < ClipHi.n
    /\ qfp.done /\ qfp.word = 32767
    /\ qnp.done /\ qnp.word = 32767

\* C3: quantize(0.0) = 0x0000, quantize(-1.0) = 0x8000 and
\* quantize(1-2^-15) = 0x7FFF; in general a representable value of s steps
\* is encoded as 65536 + s when s < 0 and as s otherwise, at both sites.
C3_Anchors ==
    LET s == qval.n \div Unit
        enc == IF s < 0 THEN 65536 + s ELSE s
        expect == CASE qval = Fin(0) -> 0
                    [] qval = Fin(-One) -> 32768
                    [] qval = Fin(One - Unit) -> 32767
                    [] OTHER -> enc
    IN  (InRange(qval) /\ qval.n % Unit = 0) =>
            /\ enc = expect
            /\ qfp.done => qfp.raised = "none" /\ qfp.word = expect
            /\ qnp.done => qnp.word = expect

\* -1.0 has been quantised to 0x8000 by both sites
C3_Witness ==
    /\ qval = Fin(-One)
    /\ qfp.done /\ qfp.word = 32768
    /\ qnp.done /\ qnp.word = 32768

\* C4: for every finite v in [-1.0, 1-2^-15] the decoded word differs from
\* v by at most 2^-15 (one Unit of the grid), under the truncating cast and
\* under round-to-nearest.
C4_RoundTrip ==
    InRange(qval) =>
        /\ qfp.done => /\ qfp.raised = "none"
                       /\ Abs(Decode(qfp.word) * Unit - qval.n) <= Unit
        /\ qnp.done => Abs(Decode(qnp.word) * Unit - qval.n) <= Unit

\* an in-range value off the Q1.15 grid on which truncation and rounding
\* give different words
C4_Witness ==
    /\ InRange(qval) /\ qval.n % Unit # 0
    /\ qfp.done /\ qnp.done
    /\ qfp.word # qnp.word

\* C12: for every finite input the signed values decoded from the words of
\* float_to_fixed_point (clamp, truncate toward zero) and of
\* save_weights_for_fpga (clip, round to nearest) differ by at most 1, and
\* are equal when the input is an exact multiple of 2^-15 in
\* [-1, 1-2^-15].
C12_SitesAgree ==
    (IsFinite(qval) /\ qfp.done /\ qnp.done) =>
        /\ qfp.raised = "none"
        /\ Abs(Decode(qfp.word) - Decode(qnp.word)) <= 1
        /\ (InRange(qval) /\ qval.n % Unit = 0) =>
              Decode(qfp.word) = Decode(qnp.word)

\* a negative in-range value off the Q1.15 grid on which the two sites are
\* exactly one step apart
C12_Witness ==
    /\ InRange(qval) /\ qval.n < 0 /\ qval.n % Unit # 0
    /\ qfp.done /\ qnp.done
    /\ Decode(qfp.word) - Decode(qnp.word) = 1

---------------------------------------------------------------------------
(* Properties of the serialiser (checked under Spec) *)

\* number of elements of a tensor or an image
Size(m) == IF m = <<>> THEN 0 ELSE Len(m) * Len(m[1])

\* element number k (from 0) in row-major order: row k div width, column
\* k mod width
RowMajor(m, k) == m[(k \div Len(m[1])) + 1][(k % Len(m[1])) + 1]

LowerHexChars ==
    {"0", "1", "2", "3", "4", "5", "6", "7", "8", "9",
     "a", "b", "c", "d", "e", "f"}

HeaderLen == Len(HeaderRadix) + Len(HeaderVector)

\* what follows the two header lines
Body(text) == SubSeq(text, HeaderLen + 1, Len(text))

\* token number k (from 0) of a COE vector, of a plain-hex file
CoeToken(text, k) == SubSeq(Body(text), 6 * k + 1, 6 * k + 4)
HexToken(text, k, width) ==
    SubSeq(text, (width + 1) * k + 1, (width + 1) * k + width)

\* the word each writer emits for element k of its tensor
GenWord(k) ==
    Mask16(float_to_fixed_point(RowMajor(weights, k), INT_BITS, FRAC_BITS).value)
SwWord(k) == Mask16(NpWordPre(RowMajor(w_int, k)))

GenDone == fn = "generate_coe_file" /\ pc = "done"
SwCoeDone == fn = "save_weights_for_fpga" /\ "coe" \in completed
SwHexDone == fn = "save_weights_for_fpga" /\ "hex" \in completed
ImageDone ==
    fn \in {"save_as_hex", "convert_image_to_hex"} /\ "hex" \in completed

\* the two header lines, then n tokens of 4 hex digits, each of the first
\* n-1 followed by ",\n" and the last by ";" and at most one newline
IsCoeArtifact(text, n) ==
    LET body == Body(text)
    IN  /\ Len(text) >= HeaderLen
        /\ SubSeq(text, 1, Len(HeaderRadix)) = HeaderRadix
        /\ SubSeq(text, Len(HeaderRadix) + 1, HeaderLen) = HeaderVector
        /\ Len(body) \in {6 * n - 1, 6 * n}
        /\ \A k \in 0..(n - 1) :
              /\ \A d \in 1..4 : body[6 * k + d] \in LowerHexChars
              /\ body[6 * k + 5] = (IF k < n - 1 THEN "," ELSE ";")
              /\ k < n - 1 => body[6 * k + 6] = "\n"
        /\ Len(body) = 6 * n => body[6 * n] = "\n"

\* C5: for N >= 1 values both COE writers produce the two header lines
\* followed by N 4-digit hex tokens, the first N-1 each followed by ",\n"
\* and the last by ";" with at most a trailing newline.
C5_CoeLayout ==
    (Size(weights) >= 1 /\ (GenDone \/ SwCoeDone)) =>
        IsCoeArtifact(files["coe"].text, Size(weights))

\* generate_coe_file has written a vector of three tokens
C5_Witness ==
    /\ GenDone
    /\ Size(weights) = 3
    /\ Len(files["coe"].text) = HeaderLen + 18

\* n lines, each of width lowercase hex digits and a newline
IsPlainHex(text, n, width) ==
    /\ Len(text) = n * (width + 1)
    /\ \A k \in 0..(n - 1) :
          /\ \A d \in 1..width : text[(width + 1) * k + d] \in LowerHexChars
          /\ text[(width + 1) * k + width + 1] = "\n"

\* C6: a plain-hex artifact of N values is N lines of one zero-padded
\* lowercase hex token (2 digits for pixels, 4 for words) and a newline
\* each; the pixels [0, 255, 16] give exactly "00\nff\n10\n".
C6_PlainHexLayout ==
    /\ ImageDone =>
          /\ IsPlainHex(files["hex"].text, Size(img), 2)
          /\ img = <<<<0, 255, 16>>>> =>
                files["hex"].text =
                    <<"0", "0", "\n", "f", "f", "\n", "1", "0", "\n">>
    /\ SwHexDone => IsPlainHex(files["hex"].text, Size(weights), 4)

\* save_as_hex has written the pixels [0, 255, 16]
C6_Witness ==
    /\ fn = "save_as_hex"
    /\ pc = "done"
    /\ img = <<<<0, 255, 16>>>>
    /\ Len(files["hex"].text) = 9

\* C7: the output holds exactly N tokens and token i is the hex encoding of
\* element i of the row-major flattening (pixel (y, x) is token y*width+x),
\* for the plain-hex and the COE format.
C7_OrderAndCount ==
    /\ GenDone =>
          /\ Len(Body(files["coe"].text)) = 6 * Size(weights)
          /\ \A k \in 0..(Size(weights) - 1) :
                CoeToken(files["coe"].text, k) = Format(GenWord(k), 4)
    /\ SwCoeDone =>
          /\ Len(Body(files["coe"].text)) =
                (IF Size(weights) = 0 THEN 1 ELSE 6 * Size(weights) - 1)
          /\ \A k \in 0..(Size(weights) - 1) :
                CoeToken(files["coe"].text, k) = Format(SwWord(k), 4)
    /\ SwHexDone =>
          /\ Len(files["hex"].text) = 5 * Size(weights)
          /\ \A k \in 0..(Size(weights) - 1) :
                HexToken(files["hex"].text, k, 4) = Format(SwWord(k), 4)
    /\ ImageDone =>
          /\ Len(files["hex"].text) = 3 * Size(img)
          /\ \A r \in 1..Len(img) : \A c \in 1..Len(img[r]) :
                HexToken(files["hex"].text, (r - 1) * Len(img[r]) + (c - 1), 2)
                    = Format(img[r][c], 2)

\* generate_coe_file has written a 2x2 tensor whose off-diagonal elements
\* encode to different words
C7_Witness ==
    /\ GenDone
    /\ Len(weights) = 2 /\ Len(weights[1]) = 2
    /\ weights[1][2] = Fin(0)
    /\ weights[2][1] = Fin(-(One \div 2))
    /\ CoeToken(files["coe"].text, 1) = <<"0", "0", "0", "0">>
    /\ CoeToken(files["coe"].text, 2) = <<"c", "0", "0", "0">>

\* the text after its first line
DropLine(text) ==
    IF \E k \in 1..Len(text) : text[k] = "\n"
    THEN LET k == CHOOSE j \in 1..Len(text) :
                      /\ text[j] = "\n"
                      /\ \A h \in 1..(j - 1) : text[h] # "\n"
         IN  SubSeq(text, k + 1, Len(text))
    ELSE <<>>

DropLast(text, ch) ==
    IF Len(text) > 0 /\ text[Len(text)] = ch
    THEN SubSeq(text, 1, Len(text) - 1)
    ELSE text

\* text.split(",\n"): the pieces between the separators, one more than
\* there are separators
RECURSIVE Split(_)
Split(text) ==
    IF \E k \in 1..(Len(text) - 1) : text[k] = "," /\ text[k + 1] = "\n"
    THEN LET k == CHOOSE j \in 1..(Len(text) - 1) :
                      /\ text[j] = "," /\ text[j + 1] = "\n"
                      /\ \A h \in 1..(j - 1) :
                            ~(text[h] = "," /\ text[h + 1] = "\n")
         IN  <<SubSeq(text, 1, k - 1)>> \o Split(SubSeq(text, k + 2, Len(text)))
    ELSE <<text>>

\* remove the two header lines, a trailing newline and the trailing ';',
\* split the rest on ",\n"
ParseCoe(text) == Split(DropLast(DropLast(DropLine(DropLine(text)), "\n"), ";"))

RoundTrips ==
    /\ GenDone =>
          ParseCoe(files["coe"].text) =
              [k \in 1..Size(weights) |-> Format(GenWord(k - 1), 4)]
    /\ SwCoeDone =>
          ParseCoe(files["coe"].text) =
              [k \in 1..Size(weights) |-> Format(SwWord(k - 1), 4)]

\* C8 as stated: for every input sequence, the empty one included, parsing
\* the COE artifact back yields the hex tokens of the quantised input in
\* order and number.
C8_RoundTripAll == RoundTrips

\* C8 amended: for every non-empty input sequence, parsing the COE artifact
\* back yields the hex tokens of the quantised input in order and number.
C8_RoundTripNonEmpty == Size(weights) >= 1 => RoundTrips

\* save_weights_for_fpga has written a COE vector of three tokens that
\* parses back to three tokens
C8_Witness ==
    /\ SwCoeDone
    /\ Size(weights) = 3
    /\ Len(ParseCoe(files["coe"].text)) = 3

\* C9: a non-finite value in the input is rejected with InvalidInput before
\* quantisation executes: no token is emitted for a non-finite element,
\* the array quantisation never runs on one, and the run ends in
\* InvalidInput rather than in another exception.
C9_NonFiniteRejected ==
    /\ fn = "generate_coe_file" => \A k \in 1..i : IsFinite(flat[k])
    /\ (fn = "save_weights_for_fpga" /\ HasNonFinite(weights)) =>
          pc \in {"sw_quantize", "failed"}
    /\ (pc = "failed" /\ err # "IoError") => err = "InvalidInput"

\* C10: after a failure during the run every destination is either a
\* complete artifact of this run or what it was before the run (absent or
\* the previous content); none holds a partially written artifact.
C10_NoPartialArtifact ==
    pc = "failed" =>
        \A f \in FileNames : f \in completed \/ files[f] = prev[f]

\* the run was given an empty tensor or image
EmptyRun ==
    \/ fn \in {"generate_coe_file", "save_weights_for_fpga"} /\ Size(weights) = 0
    \/ fn = "save_as_hex" /\ Size(img) = 0

\* C11: for an empty input no error is raised, and the artifact is the two
\* COE header lines with nothing after them from both COE writers, or zero
\* lines for the plain-hex format.
C11_EmptyInput ==
    EmptyRun =>
        /\ pc = "failed" => err = "IoError"
        /\ (GenDone \/ SwCoeDone) =>
              files["coe"].text = HeaderRadix \o HeaderVector
        /\ (SwHexDone \/ ImageDone) => files["hex"].text = <<>>

====
